---- MODULE Spec2Model ----
(***************************************************************************)
(* Session lifecycle and request orchestration of the document assistant   *)
(* (src/main.py).  One behaviour is a sequence of Streamlit script runs:   *)
(* every user interaction (file uploader change, "Analyze Document",       *)
(* "Clear Chat", chat input) starts one run of main(), which executes to   *)
(* its end before the next interaction is handled.  The Renderer and the   *)
(* Client are external: each call nondeterministically returns or raises.  *)
(*                                                                         *)
(* Text is a sequence of string tokens, so that concatenation, joining and *)
(* formatting are computed as the code computes them.  A Python value that *)
(* may be None is a record [some, text]: None is [some |-> FALSE], and the *)
(* empty string is [some |-> TRUE, text |-> <<>>].                         *)
(***************************************************************************)
EXTENDS Integers, Sequences, FiniteSets, TLC

\* ------------------------------------------------------------------ bounds
\* Distinct upload identities the uploader can hand out (odd ones are PDFs).
NumFiles == 2
\* Largest number of pages the Renderer returns for a PDF.
MaxPages == 2
\* Largest number of chunks a response stream delivers before it ends.
MaxChunks == 2
\* Largest number of follow-up turns kept in one Conversation History.
MaxTurns == 2

Files == 1..NumFiles
\* No file: the uploader's None, and session_state.current_file's None.
NoFile == 0

\* ------------------------------------------------------------------ values
None == [some |-> FALSE, text |-> <<>>]
Some(t) == [some |-> TRUE, text |-> t]
\* Python truthiness of an Optional[str]: None and "" are both falsy.
Truthy(v) == v.some /\ v.text # <<>>
\* str(v) inside an f-string: None is formatted as the word None.
Str(v) == IF v.some THEN v.text ELSE <<"None">>

\* chunk.choices[0].delta.content of one streamed chunk: None or a text.
Deltas == {None, Some(<<"s">>)}
\* Questions the user can submit (st.chat_input never returns an empty one).
Questions == {<<"q">>}

Msg(role, content) == [role |-> role, content |-> content]
\* One request issued to the Client: the model role and the turns sent.
Call(kind, system, user) == [kind |-> kind, system |-> system, user |-> user]

\* uploaded_file.type.split('/')[-1].upper() == 'PDF'
IsPDF(f) == f % 2 = 1

Digit(d) == <<"0", "1", "2", "3", "4", "5", "6", "7", "8", "9">>[d + 1]
\* Decimal formatting of a positive integer, as an f-string renders it.
RECURSIVE IntToStr(_)
IntToStr(n) == IF n < 10 THEN <<Digit(n)>>
               ELSE IntToStr(n \div 10) \o <<Digit(n % 10)>>

\* The text the vision model extracts from page n (temperature 0).
PageText(n) == <<"A">> \o IntToStr(n)
\* What analyze_image returns for page n: None when the call raised, else the
\* content of the completion, which may be the empty text.
PageResults(n) == {None, Some(<<>>), Some(PageText(n))}

\* f"Page {i+1}:\n{page_analysis}" for the page at 0-based index i.
PageSegment_LabelsIndex(i, page_analysis) ==
    <<"Page ">> \o IntToStr(i) \o <<":\n">> \o page_analysis
PageSegment(i, page_analysis) ==
    <<"Page ">> \o IntToStr(i + 1) \o <<":\n">> \o page_analysis

\* "\n\n".join(all_analyses)
RECURSIVE Join(_)
Join(segs) == IF segs = <<>> THEN <<>>
              ELSE IF Len(segs) = 1 THEN segs[1]
              ELSE segs[1] \o <<"\n\n">> \o Join(Tail(segs))

\* ------------------------------------------------------------------- state
VARIABLES
    api_key,        \* GROQ_API_KEY is set in the environment
    uploaded_file,  \* value of the st.file_uploader widget
    current_file,   \* st.session_state.current_file
    messages,       \* st.session_state.messages
    analysis,       \* st.session_state.analysis
    pc,             \* position of the script run in flight ("idle": none)
    pdf_images,     \* len(pdf_images) of the analysis in flight
    all_analyses,   \* all_analyses of the analysis in flight
    results,        \* what analyze_image returned for each page so far
    summary,        \* generate_summary's accumulator
    user_prompt,    \* the submitted question of the run in flight
    response,       \* the follow-up's accumulator
    chunks,         \* chunks consumed from the stream in flight
    calls,          \* requests this run has issued to the Client, in order
    action,         \* which interaction started this run
    outcome,        \* how the run ended (set when pc = "done")
    pre             \* the Session as it was when this run started

vars == <<api_key, uploaded_file, current_file, messages, analysis, pc,
          pdf_images, all_analyses, results, summary, user_prompt, response,
          chunks, calls, action, outcome, pre>>

Session == [current_file |-> current_file, messages |-> messages,
            analysis |-> analysis]

\* initialize_session_state on the first run: every key is absent.
initialize_session_state ==
    [current_file |-> NoFile, messages |-> <<>>, analysis |-> None]

NoLocals ==
    /\ pdf_images = 0 /\ all_analyses = <<>> /\ results = <<>>
    /\ summary = <<>> /\ user_prompt = <<>> /\ response = <<>>
    /\ chunks = 0 /\ calls = <<>>
    /\ action = "none" /\ outcome = "none"

Init ==
    /\ api_key \in BOOLEAN
    /\ uploaded_file = NoFile
    /\ current_file = initialize_session_state.current_file
    /\ messages = initialize_session_state.messages
    /\ analysis = initialize_session_state.analysis
    /\ pc = "idle"
    /\ NoLocals
    /\ pre = initialize_session_state

\* ----------------------------------------------------------- script prefix
\* Lines 212-215, executed at the top of every run: a file that differs from
\* the recorded one becomes current and resets history and analysis.
LoadDocument_KeepsHistory(up, s) ==
    IF up # NoFile /\ up # s.current_file
    THEN [current_file |-> up, messages |-> s.messages, analysis |-> None]
    ELSE s
LoadDocument(up, s) ==
    IF up # NoFile /\ up # s.current_file
    THEN [current_file |-> up, messages |-> <<>>, analysis |-> None]
    ELSE s

\* get_groq_client raises ValueError when the key is absent.
get_groq_client_never_raises == FALSE
get_groq_client_raises == ~api_key

\* Start of a run: remember the Session, name the interaction.
Begin(name) ==
    /\ pc = "idle"
    /\ pre' = Session
    /\ action' = name

\* The run ends without having touched the locals named here.
Ends(how) == pc' = "done" /\ outcome' = how

\* -------------------------------------------------------------- uploader
\* The user selects a file: the uploader hands out an identity that is held
\* neither by the widget nor by the Session.
Upload(f) ==
    /\ Begin("upload")
    /\ f \notin {uploaded_file, current_file}
    /\ uploaded_file' = f
    /\ LET s == LoadDocument(f, Session) IN
         /\ current_file' = s.current_file
         /\ messages' = s.messages
         /\ analysis' = s.analysis
    /\ Ends("ok")
    /\ UNCHANGED <<api_key, pdf_images, all_analyses, results, summary,
                   user_prompt, response, chunks, calls>>

\* The user removes the selected file: nothing is reset (line 212 needs a
\* file), and the main area returns at line 244.
RemoveFile ==
    /\ Begin("remove")
    /\ uploaded_file # NoFile
    /\ uploaded_file' = NoFile
    /\ Ends("ok")
    /\ UNCHANGED <<api_key, current_file, messages, analysis, pdf_images,
                   all_analyses, results, summary, user_prompt, response,
                   chunks, calls>>

\* ------------------------------------------------------------ clear chat
\* Lines 233-237: the three fields are reset and st.rerun() abandons the run.
ClearSession_KeepsFile(s) ==
    [current_file |-> s.current_file, messages |-> <<>>, analysis |-> None]
ClearSession(s) ==
    [current_file |-> NoFile, messages |-> <<>>, analysis |-> None]

ClearChat ==
    /\ Begin("clear")
    /\ LET s == ClearSession(LoadDocument(uploaded_file, Session)) IN
         /\ current_file' = s.current_file
         /\ messages' = s.messages
         /\ analysis' = s.analysis
    /\ pc' = "rerun"
    /\ UNCHANGED <<api_key, uploaded_file, pdf_images, all_analyses, results,
                   summary, user_prompt, response, chunks, calls, outcome>>

\* The run st.rerun() starts: no widget is triggered, lines 212-215 run.
Rerun_SkipsPrefix ==
    /\ pc = "rerun"
    /\ Ends("ok")
    /\ UNCHANGED <<api_key, uploaded_file, current_file, messages, analysis,
                   pdf_images, all_analyses, results, summary, user_prompt,
                   response, chunks, calls, action, pre>>
Rerun ==
    /\ pc = "rerun"
    /\ LET s == LoadDocument(uploaded_file, Session) IN
         /\ current_file' = s.current_file
         /\ messages' = s.messages
         /\ analysis' = s.analysis
    /\ Ends("ok")
    /\ UNCHANGED <<api_key, uploaded_file, pdf_images, all_analyses, results,
                   summary, user_prompt, response, chunks, calls, action, pre>>

\* ---------------------------------------------------------------- analyze
\* convert_pdf_to_images: -1 when convert_from_bytes raised (reported, None
\* returned), else the number of page images (0: an empty list).
RenderResults == -1..MaxPages

\* The image reference sent with the vision request for page n (1-based).
ImageUrl(n) == <<"image ">> \o IntToStr(n)

\* Lines 225-230: what History becomes once generate_summary returned `ret`.
CommitSummary_NoClear(msgs, ret) ==
    IF Truthy(ret) THEN Append(msgs, Msg("assistant", ret.text)) ELSE msgs
CommitSummary(msgs, ret) ==
    IF Truthy(ret) THEN <<Msg("assistant", ret.text)>> ELSE msgs

\* generate_summary's except branch (lines 187-189): the error is reported
\* and None is returned, whatever has been accumulated.
SummaryExcept_ReturnsPartial(acc) == Some(acc)
SummaryExcept(acc) == None

\* Lines 179-180 and 292-293: a chunk without content adds nothing.
AppendDelta(acc, d) == IF d.some THEN acc \o d.text ELSE acc

\* Line 112: a page contributes a segment when its result is truthy.
KeepPage_Always(r) == TRUE
KeepPage(r) == Truthy(r)

\* Line 222 assigns what analyze_file_content returned; lines 223-224 call
\* generate_summary when it is truthy, whose request is accepted (the stream
\* opens) or raises.  cs: the requests issued so far in this run.
StoreAnalysis(old, result) == result

\* Line 223: generate_summary is called when the stored analysis is truthy.
NeedsSummary_WhenNotNone(result) == result.some
NeedsSummary(result) == Truthy(result)

Commit(result, cs) ==
    /\ analysis' = StoreAnalysis(analysis, result)
    /\ IF ~NeedsSummary(result)
       THEN calls' = cs /\ Ends("no_analysis")
       ELSE IF get_groq_client_raises
       THEN calls' = cs /\ Ends("uncaught")
       ELSE /\ calls' = Append(cs, Call("summary", <<"summarizer">>, result.text))
            /\ \E accepted \in BOOLEAN :
                 IF accepted
                 THEN pc' = "summary" /\ UNCHANGED outcome
                 ELSE Ends("summary_failed")

\* "Analyze Document" is pressed (rendered only while a file is selected).
\* A PDF is rasterized first; an image is opened with Image.open, which is
\* outside every try block.
AnalyzeDocument ==
    /\ Begin("analyze")
    /\ uploaded_file # NoFile
    /\ LET s == LoadDocument(uploaded_file, Session) IN
         /\ current_file' = s.current_file
         /\ messages' = s.messages
         /\ IF IsPDF(uploaded_file)
            THEN \E r \in RenderResults :
                   IF r <= 0
                   THEN /\ analysis' = StoreAnalysis(s.analysis, None)
                        /\ Ends(IF r < 0 THEN "render_failed" ELSE "no_pages")
                        /\ UNCHANGED pdf_images
                   ELSE /\ pdf_images' = r
                        /\ pc' = "pages"
                        /\ analysis' = s.analysis
                        /\ UNCHANGED outcome
            ELSE \E opened \in BOOLEAN :
                   /\ analysis' = s.analysis
                   /\ UNCHANGED pdf_images
                   /\ IF opened THEN pc' = "image" /\ UNCHANGED outcome
                      ELSE Ends("uncaught")
    /\ UNCHANGED <<api_key, uploaded_file, all_analyses, results, summary,
                   user_prompt, response, chunks, calls>>

\* One iteration of the loop at lines 108-114, and lines 116-117 after the
\* last one.  analyze_image builds its client before its try block.
AnalyzePage_CallHangs == pc = "pages" /\ FALSE /\ UNCHANGED vars
AnalyzePage ==
    /\ pc = "pages"
    /\ IF get_groq_client_raises
       THEN /\ Ends("uncaught")
            /\ UNCHANGED <<analysis, calls, results, all_analyses>>
       ELSE \E r \in PageResults(Len(results) + 1) :
              LET i == Len(results)
                  segs == IF KeepPage(r)
                          THEN Append(all_analyses, PageSegment(i, r.text))
                          ELSE all_analyses
                  cs == Append(calls, Call("vision", <<>>, ImageUrl(i + 1)))
              IN /\ results' = Append(results, r)
                 /\ all_analyses' = segs
                 /\ IF i + 1 = pdf_images
                    THEN Commit(Some(Join(segs)), cs)
                    ELSE calls' = cs /\ UNCHANGED <<analysis, pc, outcome>>
    /\ UNCHANGED <<api_key, uploaded_file, current_file, messages, pdf_images,
                   summary, user_prompt, response, chunks, action, pre>>

\* Lines 119-126: a direct image upload is analysed by one call, unlabelled.
AnalyzeImage ==
    /\ pc = "image"
    /\ IF get_groq_client_raises
       THEN /\ Ends("uncaught")
            /\ UNCHANGED <<analysis, calls, results>>
       ELSE \E r \in PageResults(1) :
              /\ results' = Append(results, r)
              /\ Commit(r, Append(calls, Call("vision", <<>>, ImageUrl(1))))
    /\ UNCHANGED <<api_key, uploaded_file, current_file, messages, pdf_images,
                   all_analyses, summary, user_prompt, response, chunks,
                   action, pre>>

\* Lines 178-182: the next chunk of the summary stream arrives.
SummaryChunk ==
    /\ pc = "summary"
    /\ chunks < MaxChunks
    /\ \E d \in Deltas : summary' = AppendDelta(summary, d)
    /\ chunks' = chunks + 1
    /\ UNCHANGED <<api_key, uploaded_file, current_file, messages, analysis,
                   pc, pdf_images, all_analyses, results, user_prompt,
                   response, calls, action, outcome, pre>>

\* The stream ends: generate_summary returns the text (lines 184-185).
SummaryEnd ==
    /\ pc = "summary"
    /\ messages' = CommitSummary(messages, Some(summary))
    /\ Ends("summary_returned")
    /\ UNCHANGED <<api_key, uploaded_file, current_file, analysis, pdf_images,
                   all_analyses, results, summary, user_prompt, response,
                   chunks, calls, action, pre>>

\* The stream raises part-way: the except branch at lines 187-189.
SummaryError ==
    /\ pc = "summary"
    /\ messages' = CommitSummary(messages, SummaryExcept(summary))
    /\ Ends("summary_failed")
    /\ UNCHANGED <<api_key, uploaded_file, current_file, analysis, pdf_images,
                   all_analyses, results, summary, user_prompt, response,
                   chunks, calls, action, pre>>

\* -------------------------------------------------------------- follow-up
\* Line 258: the question is processed when History is non-empty.
FollowUpAllowed(msgs, prompt) == msgs # <<>> /\ prompt # <<>>

\* Line 269: the system turn embeds str(session_state.analysis).
RECURSIVE Flatten(_)
Flatten(msgs) ==
    IF msgs = <<>> THEN <<>> ELSE Head(msgs).content \o Flatten(Tail(msgs))
SystemPrompt_WithHistory(a) ==
    <<"Previous analysis: ">> \o Str(a) \o Flatten(messages)
        \o <<"\n\nProvide a helpful, detailed response to the question.">>
SystemPrompt_OmitsAnalysis(a) ==
    <<"Previous analysis: ">>
        \o <<"\n\nProvide a helpful, detailed response to the question.">>
SystemPrompt(a) ==
    <<"Previous analysis: ">> \o Str(a)
        \o <<"\n\nProvide a helpful, detailed response to the question.">>

\* Lines 301-302: the question and the assembled answer are appended.
AppendTurn_AnswerOnly(msgs, prompt, answer) ==
    Append(msgs, Msg("assistant", answer))
AppendTurn_AnswerFirst(msgs, prompt, answer) ==
    Append(Append(msgs, Msg("assistant", answer)), Msg("user", prompt))
AppendTurn(msgs, prompt, answer) ==
    Append(Append(msgs, Msg("user", prompt)), Msg("assistant", answer))

\* A question is submitted (the chat input is rendered only while a file is
\* selected).  Nothing in lines 264-302 is inside a try block: a failing
\* request or stream ends the run with an uncaught exception.
ChatSubmit(q) ==
    /\ Begin("chat")
    /\ uploaded_file # NoFile
    /\ Len(messages) < 1 + 2 * MaxTurns
    /\ user_prompt' = q
    /\ LET s == LoadDocument(uploaded_file, Session) IN
         /\ current_file' = s.current_file
         /\ messages' = s.messages
         /\ analysis' = s.analysis
         /\ IF ~FollowUpAllowed(s.messages, q)
            THEN Ends("ignored") /\ UNCHANGED calls
            ELSE IF get_groq_client_raises
            THEN Ends("uncaught") /\ UNCHANGED calls
            ELSE /\ calls' = <<Call("chat", SystemPrompt(s.analysis), q)>>
                 /\ \E accepted \in BOOLEAN :
                      IF accepted
                      THEN pc' = "chat" /\ UNCHANGED outcome
                      ELSE Ends("uncaught")
    /\ UNCHANGED <<api_key, uploaded_file, pdf_images, all_analyses, results,
                   summary, response, chunks>>

\* Lines 291-295: the next chunk of the answer stream arrives.
ChatChunk ==
    /\ pc = "chat"
    /\ chunks < MaxChunks
    /\ \E d \in Deltas : response' = AppendDelta(response, d)
    /\ chunks' = chunks + 1
    /\ UNCHANGED <<api_key, uploaded_file, current_file, messages, analysis,
                   pc, pdf_images, all_analyses, results, summary,
                   user_prompt, calls, action, outcome, pre>>

\* The stream ends: lines 298-302.
ChatEnd ==
    /\ pc = "chat"
    /\ messages' = AppendTurn(messages, user_prompt, response)
    /\ Ends("answered")
    /\ UNCHANGED <<api_key, uploaded_file, current_file, analysis, pdf_images,
                   all_analyses, results, summary, user_prompt, response,
                   chunks, calls, action, pre>>

\* An exception raised by the request or the stream leaves main() before
\* lines 301-302 are reached: History is what it was.
ChatRaised_KeepsQuestion(msgs, prompt, partial) ==
    Append(msgs, Msg("user", prompt))
ChatRaised(msgs, prompt, partial) == msgs

\* The stream raises part-way: the exception leaves main().
ChatError ==
    /\ pc = "chat"
    /\ messages' = ChatRaised(messages, user_prompt, response)
    /\ Ends("uncaught")
    /\ UNCHANGED <<api_key, uploaded_file, current_file, analysis,
                   pdf_images, all_analyses, results, summary, user_prompt,
                   response, chunks, calls, action, pre>>

\* --------------------------------------------------------------- run end
\* main() returns: the locals are gone, the next interaction can be handled.
ScriptEnd ==
    /\ pc = "done"
    /\ pc' = "idle"
    /\ pdf_images' = 0 /\ all_analyses' = <<>> /\ results' = <<>>
    /\ summary' = <<>> /\ user_prompt' = <<>> /\ response' = <<>>
    /\ chunks' = 0 /\ calls' = <<>>
    /\ action' = "none" /\ outcome' = "none"
    /\ pre' = initialize_session_state
    /\ UNCHANGED <<api_key, uploaded_file, current_file, messages, analysis>>

Next ==
    \/ \E f \in Files : Upload(f)
    \/ RemoveFile
    \/ ClearChat
    \/ Rerun
    \/ AnalyzeDocument
    \/ AnalyzePage
    \/ AnalyzeImage
    \/ SummaryChunk
    \/ SummaryEnd
    \/ SummaryError
    \/ \E q \in Questions : ChatSubmit(q)
    \/ ChatChunk
    \/ ChatEnd
    \/ ChatError
    \/ ScriptEnd

Spec == Init /\ [][Next]_vars

\* The steps of a run in flight.  The script runs on one thread that keeps
\* executing: when every Renderer and Client call returns or raises and
\* every stream ends, the step the run is waiting for is eventually taken.
RunStep ==
    \/ Rerun
    \/ AnalyzePage
    \/ AnalyzeImage
    \/ SummaryChunk
    \/ SummaryEnd
    \/ SummaryError
    \/ ChatChunk
    \/ ChatEnd
    \/ ChatError
    \/ ScriptEnd

LiveSpec == Spec /\ WF_vars(RunStep)

\* ================================================================== claims
AnalyzeDone == pc = "done" /\ action = "analyze"

\* Pages of the document under analysis: len(pdf_images), or 1 for an image.
PageCount == IF IsPDF(uploaded_file) THEN pdf_images ELSE 1

\* The analysis of this run has been produced and stored (line 222).
AnalysisStored ==
    /\ action = "analyze"
    /\ pc \in {"summary", "done"}
    /\ outcome # "uncaught"
    /\ PageCount >= 1

\* The segments of a text: its pieces between blank-line separators.
RECURSIVE Split(_, _)
Split(t, cur) ==
    IF t = <<>> THEN <<cur>>
    ELSE IF Head(t) = "\n\n" THEN <<cur>> \o Split(Tail(t), <<>>)
    ELSE Split(Tail(t), Append(cur, Head(t)))
Segments(t) == Split(t, <<>>)

Label(k) == <<"Page ">> \o IntToStr(k) \o <<":\n">>

\* The page numbers, in order, whose call returned a truthy text.
RECURSIVE KeptPages(_)
KeptPages(rs) ==
    IF rs = <<>> THEN <<>>
    ELSE LET front == KeptPages(SubSeq(rs, 1, Len(rs) - 1)) IN
         IF rs[Len(rs)] # None THEN Append(front, Len(rs)) ELSE front

Failed(rs) == {k \in 1..Len(rs) : rs[k] = None}

\* C1 (as stated): Conversation History is non-empty only if Analysis Text
\* is non-null, in every reachable state.
C1_HistoryImpliesAnalysis == messages # <<>> => analysis # None

\* C2 (as stated): a follow-up chat request is issued to the Client only
\* when Analysis Text is non-null.
C2_ChatRequestImpliesAnalysis ==
    \A k \in 1..Len(calls) : calls[k].kind = "chat" => analysis # None

\* C3: loading a new Document leaves Conversation History empty and
\* Analysis Text null and records the new Document as current, whatever the
\* Session was before.
C3_LoadResetsSession ==
    (pc = "done" /\ action = "upload") =>
        /\ messages = <<>>
        /\ analysis = None
        /\ current_file = uploaded_file
        /\ current_file # NoFile
        /\ current_file # pre.current_file

C3_Witness ==
    /\ pc = "done" /\ action = "upload"
    /\ Len(pre.messages) > 1
    /\ pre.analysis # None
    /\ pre.current_file # NoFile

C5_SummarySuccessReplacesHistory ==
    (AnalyzeDone /\ outcome = "summary_returned") =>
        messages = <<Msg("assistant", summary)>>

\* C5 (amended): whenever summarization succeeds with a non-empty Summary
\* Text, History afterwards is exactly one assistant turn holding it, and
\* every earlier entry is gone.
C5_NonEmptySummaryReplacesHistory ==
    (AnalyzeDone /\ outcome = "summary_returned" /\ summary # <<>>) =>
        messages = <<Msg("assistant", summary)>>

C5_Witness ==
    /\ AnalyzeDone /\ outcome = "summary_returned" /\ summary # <<>>
    /\ Len(pre.messages) > 1

\* C6 (as stated): when all N >= 1 per-page calls succeed, Analysis Text is
\* exactly N segments in page order, each prefixed with its "Page i:" label
\* when N > 1 and unlabelled when N = 1.
C6_SegmentsLabelledWhenSeveral ==
    (AnalysisStored /\ Len(results) = PageCount /\ Failed(results) = {}) =>
        /\ analysis.some
        /\ Len(Segments(analysis.text)) = PageCount
        /\ \A k \in 1..PageCount :
             Segments(analysis.text)[k] =
                 (IF PageCount > 1 THEN Label(k) ELSE <<>>) \o results[k].text

\* C6 (amended): when all N >= 1 per-page calls return a non-empty text,
\* Analysis Text is exactly N segments in page order; every segment of a PDF
\* is prefixed with its "Page i:" label (a one-page PDF included) and a
\* direct image upload carries no label.
C6_SegmentsLabelledWhenPDF ==
    (/\ AnalysisStored
     /\ Len(results) = PageCount
     /\ \A k \in 1..Len(results) : Truthy(results[k])) =>
        /\ analysis.some
        /\ Len(Segments(analysis.text)) = PageCount
        /\ \A k \in 1..PageCount :
             Segments(analysis.text)[k] =
                 (IF IsPDF(uploaded_file) THEN Label(k) ELSE <<>>)
                     \o results[k].text

C6_Witness ==
    /\ AnalysisStored /\ IsPDF(uploaded_file)
    /\ results = <<Some(PageText(1)), Some(PageText(2))>>
    /\ Len(results) = PageCount

\* C7 (as stated): if exactly one of N > 1 per-page calls fails, every other
\* page is still analysed, Analysis Text is exactly the N-1 segments of the
\* other pages in page order under their original page numbers, and the
\* summarization request is issued.
C7_OneFailureOmitsOnePage ==
    (/\ AnalyzeDone \/ (action = "analyze" /\ pc = "summary")
     /\ pdf_images > 1
     /\ Cardinality(Failed(results)) = 1) =>
        /\ Len(results) = pdf_images
        /\ Len(calls) >= pdf_images
        /\ \A k \in 1..pdf_images :
             calls[k] = Call("vision", <<>>, ImageUrl(k))
        /\ analysis.some
        /\ Segments(analysis.text) =
             [j \in 1..(pdf_images - 1) |->
                 Label(KeptPages(results)[j])
                     \o results[KeptPages(results)[j]].text]
        /\ \E k \in 1..Len(calls) : calls[k].kind = "summary"

\* C7 (amended): if exactly one of N > 1 per-page calls fails and every
\* other call returns a non-empty text, every other page is still analysed,
\* Analysis Text is exactly the N-1 segments of the other pages in page
\* order under their original page numbers, and the summarization request
\* is issued.
C7_OneFailureOthersNonEmpty ==
    (/\ AnalyzeDone \/ (action = "analyze" /\ pc = "summary")
     /\ pdf_images > 1
     /\ Cardinality(Failed(results)) = 1
     /\ \A k \in 1..Len(results) : results[k] = None \/ Truthy(results[k])) =>
        /\ Len(results) = pdf_images
        /\ Len(calls) >= pdf_images
        /\ \A k \in 1..pdf_images :
             calls[k] = Call("vision", <<>>, ImageUrl(k))
        /\ analysis.some
        /\ Segments(analysis.text) =
             [j \in 1..(pdf_images - 1) |->
                 Label(KeptPages(results)[j])
                     \o results[KeptPages(results)[j]].text]
        /\ \E k \in 1..Len(calls) : calls[k].kind = "summary"

C7_Witness ==
    /\ action = "analyze" /\ pc = "summary"
    /\ pdf_images > 1
    /\ Len(results) = pdf_images
    /\ results[1] = None
    /\ \A k \in 2..Len(results) : Truthy(results[k])

\* C8 (as stated): when rasterization of a PDF fails during an Analyze
\* action, History, Analysis Text and current Document identity are the same
\* after the action as before it, for every prior state.
C8_RenderFailureLeavesSession ==
    (AnalyzeDone /\ outcome = "render_failed") => Session = pre

\* C9 (as stated): after an Analyze action either Analysis Text holds the
\* new analysis and History is exactly the assistant turn with its Summary
\* Text, or Analysis Text and History are both as before the action.
C9_AnalyzeAllOrNothing ==
    AnalyzeDone =>
        \/ /\ outcome = "summary_returned"
           /\ analysis.some
           /\ messages = <<Msg("assistant", summary)>>
        \/ /\ analysis = pre.analysis
           /\ messages = pre.messages

\* C10: when summarization fails, on the request or part-way through the
\* stream, no assistant turn is appended: History after the Analyze action
\* equals History before it, whatever had been streamed.
C10_SummaryFailureKeepsHistory ==
    (AnalyzeDone /\ outcome = "summary_failed") => messages = pre.messages

C10_Witness ==
    /\ AnalyzeDone /\ outcome = "summary_failed"
    /\ summary # <<>>
    /\ pre.messages # <<>>

\* C11: a successful follow-up appends exactly two entries, the user
\* question and then the assembled answer, after the stream has ended: while
\* the answer is streaming History is untouched, and all earlier entries are
\* kept in place.
C11_FollowUpAppendsPair ==
    /\ (action = "chat" /\ pc = "chat") => messages = pre.messages
    /\ (action = "chat" /\ pc = "done" /\ outcome = "answered") =>
          /\ Len(messages) = Len(pre.messages) + 2
          /\ SubSeq(messages, 1, Len(pre.messages)) = pre.messages
          /\ messages[Len(messages) - 1] = Msg("user", user_prompt)
          /\ messages[Len(messages)] = Msg("assistant", response)

C11_Witness ==
    /\ action = "chat" /\ pc = "done" /\ outcome = "answered"
    /\ response # <<>>
    /\ chunks = MaxChunks
    /\ pre.messages # <<>>

\* C12: when the follow-up request or its stream fails, nothing is
\* committed for that turn: History and Analysis Text are as they were
\* before the question was submitted.
C12_FollowUpFailureCommitsNothing ==
    (action = "chat" /\ pc = "done" /\ outcome = "uncaught") =>
        /\ messages = pre.messages
        /\ analysis = pre.analysis

C12_Witness ==
    /\ action = "chat" /\ pc = "done" /\ outcome = "uncaught"
    /\ response # <<>>
    /\ pre.messages # <<>>

\* C13 (as stated): every failure of a Renderer or Client call is caught
\* where the call is made: no run that has issued a Client request ends in
\* an uncaught exception.
C13_NoUncaughtClientFailure ==
    (pc = "done" /\ calls # <<>>) => outcome # "uncaught"

\* C14 (as stated): if the API key is absent, the configuration error is
\* raised at startup: no user action is handled, the Session is never
\* mutated and no Client request is issued.
C14_MissingKeyStopsAtStartup ==
    ~api_key =>
        /\ action = "none"
        /\ Session = initialize_session_state
        /\ calls = <<>>

\* C14 (amended): if the API key is absent, the configuration error is
\* raised when an Analyze action first needs the Client, not at startup
\* (uploads, removals and clears are handled and record the Document
\* identity); every Analyze that reaches a page ends in that error, no
\* Client request is ever issued, and History and Analysis Text stay
\* empty and null.
C14_MissingKeyFailsOnFirstUse ==
    ~api_key =>
        /\ calls = <<>>
        /\ messages = <<>>
        /\ analysis = None
        /\ pc \notin {"summary", "chat"}
        /\ (/\ pc = "done" /\ action = "analyze"
            /\ outcome \notin {"render_failed", "no_pages"}) =>
               outcome = "uncaught"

C14_Witness ==
    /\ ~api_key
    /\ pc = "done" /\ action = "analyze" /\ outcome = "uncaught"
    /\ pdf_images > 0
    /\ current_file # NoFile

\* text contains sub as a contiguous part.
Embeds(text, sub) ==
    \E i \in 0..(Len(text) - Len(sub)) : SubSeq(text, i + 1, i + Len(sub)) = sub

\* Ready: the analysis cycle of the Document has completed.
Ready(s) == Truthy(s.analysis) /\ s.messages # <<>>

\* C15 (as stated): once Analysis Text has been produced it does not change
\* and no new analysis cycle starts until a new Document is loaded or the
\* session is cleared; every follow-up request in between embeds it.
C15_ReadyIsTerminal ==
    /\ action = "analyze" => ~Ready(pre)
    /\ (action \in {"analyze", "chat", "remove"} /\ Ready(pre)) =>
          analysis = pre.analysis
    /\ \A k \in 1..Len(calls) :
          (calls[k].kind = "chat" /\ pre.analysis.some) =>
              Embeds(calls[k].system, pre.analysis.text)

\* C15 (amended): once Analysis Text has been produced it changes only when
\* a new Document is loaded, the session is cleared, or an Analyze action
\* (which can be started again in Ready) stores its result; follow-up and
\* file-removal runs never change it, an Analyze run leaves it alone until
\* its pages have been attempted, and every follow-up request embeds the
\* Analysis Text the Session holds.
C15_AnalysisChangesOnlyByLoadClearAnalyze ==
    /\ action \in {"chat", "remove"} => analysis = pre.analysis
    /\ (action = "analyze" /\ pc \in {"pages", "image"}) =>
          analysis = pre.analysis
    /\ \A k \in 1..Len(calls) :
          (calls[k].kind = "chat" /\ pre.analysis.some) =>
              /\ analysis = pre.analysis
              /\ Embeds(calls[k].system, analysis.text)

C15_Witness ==
    /\ action = "chat" /\ pc = "done" /\ outcome = "answered"
    /\ Truthy(pre.analysis)
    /\ analysis = pre.analysis
    /\ Embeds(calls[1].system, analysis.text)

\* C16 (as stated): each follow-up request resends the accumulated
\* Conversation History in its system turn together with the full Analysis
\* Text, so the request grows with the number of earlier turns.
C16_RequestResendsHistory ==
    \A k \in 1..Len(calls) :
        calls[k].kind = "chat" =>
            /\ Embeds(calls[k].system, Str(pre.analysis))
            /\ \A j \in 1..Len(pre.messages) :
                  Embeds(calls[k].system, pre.messages[j].content)

\* C16 (amended): each follow-up request is exactly one system turn that
\* embeds the full Analysis Text and one user turn with the new question;
\* Conversation History is not resent, so the request does not grow with
\* the number of earlier turns.
C16_RequestHoldsAnalysisAndQuestionOnly ==
    (action = "chat" /\ calls # <<>>) =>
        /\ Len(calls) = 1
        /\ calls[1].kind = "chat"
        /\ calls[1].user = user_prompt
        /\ calls[1].system =
             <<"Previous analysis: ">>
                 \o (IF pre.analysis.some THEN pre.analysis.text
                     ELSE <<"None">>)
                 \o <<"\n\nProvide a helpful, detailed response to the question.">>

C16_Witness ==
    /\ action = "chat" /\ calls # <<>>
    /\ Len(pre.messages) >= 3
    /\ Truthy(pre.analysis)

\* C17: Conversation History is always empty or an assistant turn holding
\* a Summary Text followed by (user, assistant) pairs: its length is 0 or
\* odd, roles alternate starting with the assistant, the first entry is the
\* non-empty summary an Analyze action committed and follow-ups keep it.
C17_HistoryShape ==
    /\ messages = <<>> \/ Len(messages) % 2 = 1
    /\ \A j \in 1..Len(messages) :
          messages[j].role = (IF j % 2 = 1 THEN "assistant" ELSE "user")
    /\ messages # <<>> => messages[1].content # <<>>
    /\ (AnalyzeDone /\ outcome = "summary_returned" /\ summary # <<>>) =>
          messages[1].content = summary
    /\ (action = "chat" /\ pre.messages # <<>>) =>
          (messages # <<>> /\ messages[1] = pre.messages[1])

C17_Witness ==
    /\ Len(messages) = 5
    /\ action = "chat" /\ pc = "done"

\* C18: within one Analyze action the Client requests are sequential and in
\* page order: the k-th request is the one for page k and is issued when
\* the k-1 pages before it have returned or failed; the summarization
\* request is the last one, issued after every page has been attempted and
\* only with a non-empty Analysis Text, which it carries.
C18_AnalyzeCallsSequential ==
    action = "analyze" =>
        /\ Len(calls) \in {Len(results), Len(results) + 1}
        /\ \A k \in 1..Len(calls) :
              \/ /\ calls[k].kind = "vision"
                 /\ k <= Len(results)
                 /\ k <= PageCount
                 /\ calls[k].user = ImageUrl(k)
              \/ /\ calls[k].kind = "summary"
                 /\ k = Len(calls)
                 /\ k = PageCount + 1
                 /\ Len(results) = PageCount
                 /\ \E j \in 1..Len(results) : Truthy(results[j])
                 /\ analysis.some /\ analysis.text # <<>>
                 /\ calls[k].user = analysis.text

C18_Witness ==
    /\ action = "analyze" /\ pc = "summary"
    /\ pdf_images = 2 /\ Len(calls) = 3
    /\ ~Truthy(results[1])

\* C19: after a clear performed while a file is still selected, the run
\* that st.rerun() starts records that file as current again while History
\* stays empty and Analysis Text null, and it issues no Client request; nor
\* does a question submitted while History is empty.
C19_RerunAfterClearReloadsFile ==
    /\ (action = "clear" /\ pc = "done") =>
          /\ uploaded_file # NoFile => current_file = uploaded_file
          /\ messages = <<>>
          /\ analysis = None
          /\ calls = <<>>
    /\ (action = "chat" /\ pre.messages = <<>>) => calls = <<>>

C19_Witness ==
    /\ action = "clear" /\ pc = "done"
    /\ uploaded_file # NoFile
    /\ current_file = uploaded_file
    /\ Len(pre.messages) > 1
    /\ pre.analysis # None

\* C20: if every Renderer and Client call returns or fails and every
\* response stream ends, every action in flight (Analyze and follow-up
\* included) eventually completes and control returns to the user.
C20_RunsComplete == (pc # "idle") ~> (pc = "idle")

C20_Witness ==
    /\ pc = "done" /\ outcome = "answered"
    /\ chunks = MaxChunks
    /\ Len(pre.messages) >= 3
====
